---- MODULE Spec2Model ----
(***************************************************************************)
(* A model of dbus_mqtt.py: the bridge that mirrors the values of every    *)
(* com.victronenergy.* D-Bus service onto retained MQTT topics and serves  *)
(* R/ and W/ requests from the broker.  Strings are modelled as strings    *)
(* (topics, uids and payloads are built and parsed as the code does it),   *)
(* Python dicts that the code iterates are modelled as insertion-ordered   *)
(* sequences of <<key, value>> pairs.                                      *)
(***************************************************************************)
EXTENDS Integers, Sequences, FiniteSets, TLC

(***************************************************************************)
(* Bounds of the model.                                                    *)
(***************************************************************************)
\* bus values are None (the "invalid" sentinel, unwrapped) and 1..MaxValue
MaxValue == 1
\* /DeviceInstance answers range over 0..MaxInst
MaxInst == 1
\* unique bus names :1.1 .. :1.MaxOwners are handed out, never reused
MaxOwners == 2
\* at most MaxIdle idle sources for _service_queue are pending at a time
MaxIdle == 1

(***************************************************************************)
(* Program constants.                                                      *)
(***************************************************************************)
ServicePrefix == "com.victronenergy."
blocked_items == {<<"vebus", "/Interfaces/Mk2/Tunnel">>, <<"paygo", "/LVD/Threshold">>}
\* _service_queue(self, items=5)
DrainItems == 5
\* get_vrm_portal_id() of this system, and the portal id of some other system
SystemId == "abc123"
OtherId == "def456"

(***************************************************************************)
(* The bus: the services that may own a name, and the object tree of each. *)
(***************************************************************************)
SysService == "com.victronenergy.system"
Vebus1 == "com.victronenergy.vebus.ttyO1"
Vebus2 == "com.victronenergy.vebus.ttyO2"
Battery == "com.victronenergy.battery.ttyO3"
OtherService == "org.freedesktop.Avahi"
VendorServices == {SysService, Vebus1, Vebus2, Battery}
\* the sets of vendor services that a system has installed
Installations == {{Vebus1}, {SysService, Vebus1}, {Vebus1, Vebus2}, {Battery}}

\* the object paths a service exports, in the order it lists them
PathsOf(s) ==
  IF s = SysService THEN <<"/Serial">>
  ELSE IF s \in {Vebus1, Vebus2} THEN <<"/Interfaces/Mk2/Tunnel", "/Mode">>
  ELSE IF s = Battery
  THEN <<"/Dc/0/Current", "/Dc/0/Power", "/Dc/0/Voltage", "/Soc", "/State", "/TimeToGo">>
  ELSE <<"/Status">>

(***************************************************************************)
(* Python values: None, ints and strings, tagged.                          *)
(***************************************************************************)
PyNone == [t |-> "None"]
PyInt(n) == [t |-> "int", v |-> n]
PyStr(s) == [t |-> "str", v |-> s]
BusValues == {PyNone} \cup {PyInt(n) : n \in 1..MaxValue}
\* the values an item may have: the tunnel of a vebus service is invalid at rest, and
\* of the items of the battery monitor the current and the time to go take values
ValuesOf(path) ==
  IF path \in {"/Interfaces/Mk2/Tunnel", "/Dc/0/Power", "/Dc/0/Voltage", "/Soc", "/State"}
  THEN {PyNone}
  ELSE BusValues
\* the device instances a service may report: the system service is device 0
InstancesOf(s) == IF s = SysService THEN {0} ELSE 0..MaxInst

(***************************************************************************)
(* str methods.                                                            *)
(***************************************************************************)
StartsWith(s, p) == Len(s) >= Len(p) /\ SubSeq(s, 1, Len(p)) = p
EndsWith(s, p) == Len(s) >= Len(p) /\ SubSeq(s, Len(s) - Len(p) + 1, Len(s)) = p

RECURSIVE Find(_, _, _)
\* index of the first c in s at or after i, 0 when there is none
Find(s, c, i) ==
  IF i > Len(s) THEN 0
  ELSE IF SubSeq(s, i, i) = c THEN i
  ELSE Find(s, c, i + 1)

RECURSIVE Split(_, _, _)
\* s.split(c, n); n = -1 splits at every c
Split(s, c, n) ==
  LET i == Find(s, c, 1)
  IN IF n = 0 \/ i = 0 THEN <<s>>
     ELSE <<SubSeq(s, 1, i - 1)>> \o Split(SubSeq(s, i + 1, Len(s)), c, n - 1)

Digits == <<"0", "1", "2", "3", "4", "5", "6", "7", "8", "9">>

RECURSIVE IntToStr(_)
\* '{}'.format(n) for a non-negative int
IntToStr(n) == IF n < 10 THEN Digits[n + 1] ELSE IntToStr(n \div 10) \o Digits[(n % 10) + 1]

DigitOf(c) == IF \E d \in 0..9 : Digits[d + 1] = c
              THEN CHOOSE d \in 0..9 : Digits[d + 1] = c
              ELSE -1

RECURSIVE ParseDigits(_, _)
ParseDigits(s, acc) ==
  IF Len(s) = 0 THEN acc
  ELSE LET d == DigitOf(SubSeq(s, 1, 1))
       IN IF d < 0 \/ acc < 0 THEN -1 ELSE ParseDigits(SubSeq(s, 2, Len(s)), 10 * acc + d)

\* int(s) for a str of decimal digits; -1 stands for ValueError
StrToInt(s) == IF Len(s) = 0 THEN -1 ELSE ParseDigits(s, 0)

\* '{}'.format(v) of a Python value
Format(v) == IF v.t = "int" THEN IntToStr(v.v) ELSE IF v.t = "str" THEN v.v ELSE "None"

(***************************************************************************)
(* json.dumps(dict(value=value)) and json.loads(payload)['value'].         *)
(***************************************************************************)
JsonOpen == "{\"value\": "
JsonValue(v) ==
  IF v.t = "int" THEN IntToStr(v.v)
  ELSE IF v.t = "str" THEN "\"" \o v.v \o "\""
  ELSE "null"
JsonDumps(v) == JsonOpen \o JsonValue(v) \o "}"

\* the 'value' member of a JSON payload; [t |-> "error"] stands for the
\* ValueError, TypeError or KeyError of a payload that has none
JsonError == [t |-> "error"]
JsonLoadsValue(payload) ==
  IF StartsWith(payload, JsonOpen) /\ EndsWith(payload, "}") /\ Len(payload) > Len(JsonOpen) + 1
  THEN LET body == SubSeq(payload, Len(JsonOpen) + 1, Len(payload) - 1)
       IN IF body = "null" THEN PyNone
          ELSE IF StrToInt(body) >= 0 THEN PyInt(StrToInt(body))
          ELSE IF Len(body) >= 2 /\ StartsWith(body, "\"") /\ EndsWith(body, "\"")
                  /\ Find(SubSeq(body, 2, Len(body) - 1), "\"", 1) = 0
               THEN PyStr(SubSeq(body, 2, Len(body) - 1))
          ELSE JsonError
  ELSE JsonError

(***************************************************************************)
(* Module-level functions of dbus_mqtt.py.                                 *)
(***************************************************************************)
\* only called with names under ServicePrefix
get_service_type(service_name) == Split(service_name, ".", -1)[3]

get_short_service_name(service, device_instance) ==
  get_service_type(service) \o "/" \o IntToStr(device_instance)

(***************************************************************************)
(* dict and OrderedDict: a sequence of <<key, value>> pairs in insertion   *)
(* order.  d[k] = v keeps the place of a key that is already present.      *)
(***************************************************************************)
DKeys(d) == {d[i][1] : i \in DOMAIN d}
DHas(d, k) == k \in DKeys(d)
DIndex(d, k) == CHOOSE i \in DOMAIN d : d[i][1] = k
DGet(d, k) == d[DIndex(d, k)][2]
DSet(d, k, v) ==
  IF DHas(d, k) THEN [d EXCEPT ![DIndex(d, k)] = <<k, v>>] ELSE Append(d, <<k, v>>)
DDel(d, k) ==
  LET i == DIndex(d, k)
  IN SubSeq(d, 1, i - 1) \o SubSeq(d, i + 1, Len(d))

\* a plain dict that the code never iterates in its own order: a function
FSet(f, k, v) == [x \in DOMAIN f \cup {k} |-> IF x = k THEN v ELSE f[x]]
FDel(f, k) == [x \in DOMAIN f \ {k} |-> f[x]]

\* an empty dict
EmptyDict == [x \in {} |-> ""]

\* None where the code has an optional str (a topic, a service name)
NoStr == ""
\* the payload None of _unpublish: published as the empty retained payload
Tombstone == ""

(***************************************************************************)
(* State.                                                                  *)
(***************************************************************************)
VARIABLES
  topics,             \* self._topics: uid (service + path) -> topic, in insertion order
  values,             \* self._values: topic -> last value seen on D-Bus
  services,           \* self._services: service_type/device_instance -> service name
  service_ids,        \* self._service_ids: unique bus name -> service name
  queue,              \* self.queue: OrderedDict topic -> payload
  socket_watch,       \* self._socket_watch: "None" or "watch"
  connected_to_cloud, \* self._connected_to_cloud
  since_run,          \* 0 when the queue ran since the previous firing of the timer, else 1
  idle_sources,       \* pending GLib idle sources that call _service_queue
  phase,              \* "init" while __init__ scans the bus, "run" in the main loop, "dead"
  init_todo,          \* the names of list_names() that __init__ has still to visit
  installed,          \* the bus: the vendor services of this system
  owner,              \* the bus: name -> unique name of its owner, "" when it has none
  conn,               \* the bus: unique name handed out -> the name it was handed out for
  scanned,            \* the bus: name -> the device instance its last scan found, -1 for none
  retained,           \* the broker: the topics whose last publish carried a payload
  awaited,            \* the bus: the SetValue call accepted last whose change signal is due
  lastOp,             \* the handler that ran last, with its inputs
  busOut,             \* the GetValue/SetValue calls the last request handler made
  enqOut,             \* the self.queue[topic] = payload assignments the last handler made
  pubOut,             \* the self._client.publish calls the last handler made
  regOut              \* the number of self._registrator.register() calls the last handler made

prog == <<topics, values, services, service_ids, queue, socket_watch, connected_to_cloud,
          since_run, idle_sources, phase, init_todo>>
env == <<installed, owner, conn, scanned, retained>>
outs == <<lastOp, busOut, enqOut, pubOut, regOut>>
vars == <<prog, env, outs, awaited>>

UniqueName(n) == ":1." \o IntToStr(n)
\* the unique name of a connection that owns no vendor name
OtherUnique == ":1.0"

(***************************************************************************)
(* DbusMqtt._publish, _unpublish, _publish_all.  A handler works on        *)
(* Q = [q |-> self.queue, log |-> the assignments self.queue[topic] =      *)
(* payload it has made].                                                   *)
(***************************************************************************)
\* the assignment self.queue[topic] = payload on a queue that is a list of pairs
QueueSetAppends(Q, topic, payload) ==
  [q |-> Append(Q.q, <<topic, payload>>), log |-> Append(Q.log, <<topic, payload>>)]

\* the assignment moving a key that is present to the end of the OrderedDict
QueueSetToTail(Q, topic, payload) ==
  [q |-> Append(IF DHas(Q.q, topic) THEN DDel(Q.q, topic) ELSE Q.q, <<topic, payload>>),
   log |-> Append(Q.log, <<topic, payload>>)]

QueueSet(Q, topic, payload) ==
  [q |-> DSet(Q.q, topic, payload), log |-> Append(Q.log, <<topic, payload>>)]

\* _publish without the test of the socket watch
PublishUnwatched(Q, topic, value) == QueueSet(Q, topic, JsonDumps(value))

Publish(Q, topic, value) ==
  IF socket_watch = "None" THEN Q ELSE QueueSet(Q, topic, JsonDumps(value))

\* _unpublish without the exception for the system serial
UnpublishSerial(Q, topic) ==
  IF socket_watch = "None" THEN Q ELSE QueueSet(Q, topic, Tombstone)

Unpublish(Q, topic) ==
  IF socket_watch = "None" THEN Q
  ELSE IF EndsWith(topic, "/system/0/Serial") THEN Q
  ELSE QueueSet(Q, topic, Tombstone)

\* the characters of the model's strings in code point order
Alphabet == "./0123456789:ABCDEFGHIJKLMNOPQRSTUVWXYZ_abcdefghijklmnopqrstuvwxyz"
Ord(c) == CHOOSE x \in 1..Len(Alphabet) : SubSeq(Alphabet, x, x) = c

RECURSIVE StrLess(_, _)
\* a < b on str
StrLess(a, b) ==
  IF Len(b) = 0 THEN FALSE
  ELSE IF Len(a) = 0 THEN TRUE
  ELSE IF SubSeq(a, 1, 1) = SubSeq(b, 1, 1)
       THEN StrLess(SubSeq(a, 2, Len(a)), SubSeq(b, 2, Len(b)))
  ELSE Ord(SubSeq(a, 1, 1)) < Ord(SubSeq(b, 1, 1))

RECURSIVE Sorted(_)
\* sorted(S) of a set of str
Sorted(S) ==
  IF S = {} THEN <<>>
  ELSE LET m == CHOOSE x \in S : \A y \in S \ {x} : StrLess(x, y)
       IN <<m>> \o Sorted(S \ {m})

RECURSIVE PublishEach(_, _, _)
PublishEach(Q, ts, vl) ==
  IF ts = <<>> THEN Q
  ELSE PublishEach(Publish(Q, Head(ts), vl[Head(ts)]), Tail(ts), vl)

PublishAll(Q, vl) == PublishEach(Q, Sorted(DOMAIN vl), vl)

(***************************************************************************)
(* DbusMqtt._add_item.  tp is self._topics, vl self._values; r is the      *)
(* returned topic, NoStr for None.  device_instance is a Python value: an  *)
(* int from a scan or a read request, a str from a change signal.          *)
(***************************************************************************)
\* _add_item without the test for the blocked pairs
AddItemBlocked(tp, vl, service, device_instance, path0, value) ==
  LET path == IF ~StartsWith(path0, "/") THEN "/" \o path0 ELSE path0
      uid == service \o path
      service_type == get_service_type(service)
      topic == "N/" \o SystemId \o "/" \o service_type \o "/" \o Format(device_instance) \o path
  IN IF DHas(tp, uid) THEN [topics |-> tp, values |-> vl, r |-> DGet(tp, uid)]
     ELSE [topics |-> DSet(tp, uid, topic), values |-> FSet(vl, topic, value), r |-> topic]

AddItem(tp, vl, service, device_instance, path0, value) ==
  LET path == IF ~StartsWith(path0, "/") THEN "/" \o path0 ELSE path0
      uid == service \o path
      service_type == get_service_type(service)
      topic == "N/" \o SystemId \o "/" \o service_type \o "/" \o Format(device_instance) \o path
  IN IF DHas(tp, uid) THEN [topics |-> tp, values |-> vl, r |-> DGet(tp, uid)]
     ELSE IF <<service_type, path>> \in blocked_items
          THEN [topics |-> tp, values |-> vl, r |-> NoStr]
     ELSE [topics |-> DSet(tp, uid, topic), values |-> FSet(vl, topic, value), r |-> topic]

(***************************************************************************)
(* Replies of the bus to a blocking call: a value or a DBusException.      *)
(***************************************************************************)
UnknownObject == "org.freedesktop.DBus.Error.UnknownObject"
UnknownMethod == "org.freedesktop.DBus.Error.UnknownMethod"
ServiceUnknown == "org.freedesktop.DBus.Error.ServiceUnknown"
Disconnected == "org.freedesktop.DBus.Error.Disconnected"
NoReply == "org.freedesktop.DBus.Error.NoReply"
AccessDenied == "org.freedesktop.DBus.Error.AccessDenied"
ErrorNames == {UnknownObject, UnknownMethod, ServiceUnknown, Disconnected, NoReply, AccessDenied}

Val(v) == [ok |-> TRUE, v |-> v]
Err(e) == [ok |-> FALSE, e |-> e]

\* A scan asks for /DeviceInstance and then for /.  di is the first answer; listing is
\* the second: the dict of all items, something that is no dict, or an error.  After
\* UnknownObject or UnknownMethod the tree is introspected, and ok of its items are
\* read before the call that raises e2.
FirstValues(s, m) == {f \in [1..m -> BusValues] : \A i \in 1..m : f[i] \in ValuesOf(PathsOf(s)[i])}
Listings(s) ==
  LET n == Len(PathsOf(s))
  IN {[k |-> "dict", vals |-> f] : f \in FirstValues(s, n)}
     \cup {[k |-> "scalar"]}
     \cup {[k |-> "error", e |-> e] : e \in {ServiceUnknown, Disconnected, NoReply, AccessDenied}}
     \cup {[k |-> "introspect", e |-> UnknownObject, vals |-> f, ok |-> n, e2 |-> NoStr] :
             f \in FirstValues(s, n)}
     \cup {[k |-> "introspect", e |-> UnknownMethod, vals |-> f, ok |-> m, e2 |-> e2] :
             m \in {n - 1}, f \in FirstValues(s, n - 1), e2 \in {ServiceUnknown, AccessDenied}}

Unlisted == [k |-> "scalar"]

\* the pairs of answers: a /DeviceInstance call that ends the scan leaves no second call
ScanReplies(s) ==
  {<<Val(PyInt(n)), l>> : n \in InstancesOf(s), l \in Listings(s)}
  \cup {<<di, [k |-> "dict", vals |-> f]>> :
          di \in {Val(PyNone), Err(UnknownObject), Err(UnknownMethod)},
          f \in FirstValues(s, Len(PathsOf(s)))}
  \cup {<<Err(e), Unlisted>> : e \in {ServiceUnknown, Disconnected, NoReply, AccessDenied}}

(***************************************************************************)
(* DbusMqtt._introspect: the paths of the BusItem leaves, in the order the *)
(* recursion over the <node> children reaches them.                        *)
(***************************************************************************)
RECURSIVE ChildNames(_, _, _)
\* the name attributes of the <node> children of path, given the leaves L
ChildNames(L, path, acc) ==
  IF L = <<>> THEN acc
  ELSE LET pre == IF EndsWith(path, "/") THEN path ELSE path \o "/"
           l == Head(L)
           name == Split(SubSeq(l, Len(pre) + 1, Len(l)), "/", 1)[1]
       IN IF StartsWith(l, pre) /\ Len(l) > Len(pre)
               /\ \A i \in DOMAIN acc : acc[i] # name
          THEN ChildNames(Tail(L), path, Append(acc, name))
          ELSE ChildNames(Tail(L), path, acc)

RECURSIVE IntrospectPaths(_, _)
RECURSIVE IntrospectChildren(_, _, _)
IntrospectPaths(L, path) ==
  LET nodes == ChildNames(L, path, <<>>)
  IN IF Len(nodes) = 0 THEN <<path>> ELSE IntrospectChildren(L, path, nodes)
IntrospectChildren(L, path, nodes) ==
  IF nodes = <<>> THEN <<>>
  ELSE LET name == Head(nodes)
           p == IF EndsWith(path, "/") THEN path \o name ELSE path \o "/" \o name
       IN IntrospectPaths(L, p) \o IntrospectChildren(L, path, Tail(nodes))

(***************************************************************************)
(* DbusMqtt._scan_dbus_service.  st is [topics, values, services, queue];  *)
(* the result adds raised: the exception that left the method, NoStr for   *)
(* none.                                                                   *)
(***************************************************************************)
RECURSIVE AddItems(_, _, _, _, _)
\* the loops that add (and with publish, enqueue) the items <<path, value>>
AddItems(st, service, device_instance, items, publish) ==
  IF items = <<>> THEN st
  ELSE LET a == AddItem(st.topics, st.values, service, PyInt(device_instance),
                        Head(items)[1], Head(items)[2])
           q == IF publish /\ a.r # NoStr THEN Publish(st.queue, a.r, Head(items)[2])
                ELSE st.queue
       IN AddItems([st EXCEPT !.topics = a.topics, !.values = a.values, !.queue = q],
                   service, device_instance, Tail(items), publish)

ScanExcept(st, e) ==
  [topics |-> st.topics, values |-> st.values, services |-> st.services, queue |-> st.queue,
   raised |-> IF e \in {ServiceUnknown, Disconnected, NoReply} THEN NoStr ELSE e]

ScanReturn(st) ==
  [topics |-> st.topics, values |-> st.values, services |-> st.services, queue |-> st.queue,
   raised |-> NoStr]

\* the device instance a scan works with when /DeviceInstance is answered di, -1 when
\* the answer ends the scan
ScannedInstance(di) ==
  IF di.ok THEN (IF di.v.t = "int" THEN di.v.v ELSE 0)
  ELSE IF di.e \in {UnknownObject, UnknownMethod} THEN 0
  ELSE -1

ScanService(st, service, publish, di, listing) ==
  IF ~di.ok /\ di.e \notin {UnknownObject, UnknownMethod} THEN ScanExcept(st, di.e)
  ELSE
    LET device_instance == ScannedInstance(di)
        st1 == [st EXCEPT !.services =
                  DSet(st.services, get_short_service_name(service, device_instance), service)]
        paths == PathsOf(service)
    IN CASE listing.k = "dict" ->
              ScanReturn(AddItems(st1, service, device_instance,
                [i \in 1..Len(paths) |-> <<SubSeq(paths[i], 2, Len(paths[i])), listing.vals[i]>>],
                publish))
         [] listing.k = "scalar" -> ScanReturn(st1)
         [] listing.k = "error" -> ScanExcept(st1, listing.e)
         [] listing.k = "introspect" ->
              LET leaves == IntrospectPaths(paths, "/")
                  done == AddItems(st1, service, device_instance,
                            [i \in 1..listing.ok |-> <<leaves[i], listing.vals[i]>>], publish)
              IN IF listing.ok < Len(leaves) THEN ScanExcept(done, listing.e2)
                 ELSE ScanReturn(done)

(***************************************************************************)
(* DbusMqtt._dbus_name_owner_changed.                                      *)
(***************************************************************************)
\* no SetValue call awaits its change signal
NoWrite == [service |-> NoStr]

\* self.queue when a handler starts
Queue0 == [q |-> queue, log |-> <<>>]

Tables == [topics |-> topics, values |-> values, services |-> services, queue |-> Queue0]

RECURSIVE Teardown(_, _, _)
\* for path, topic in list(self._topics.items()): items is that list; del
\* self._values[topic] raises KeyError when the topic has no value slot
Teardown(st, name, items) ==
  IF items = <<>> THEN [st EXCEPT !.raised = NoStr]
  ELSE LET path == Head(items)[1]
           topic == Head(items)[2]
       IN IF StartsWith(path, name \o "/")
          THEN LET st1 == [st EXCEPT !.queue = Unpublish(st.queue, topic),
                                     !.topics = DDel(st.topics, path)]
               IN IF topic \in DOMAIN st1.values
                  THEN Teardown([st1 EXCEPT !.values = FDel(st1.values, topic)], name, Tail(items))
                  ELSE [st1 EXCEPT !.raised = "KeyError"]
          ELSE Teardown(st, name, Tail(items))

\* the tables and self._service_ids after the handler
NameOwnerChanged(name, oldowner, newowner, di, listing) ==
  IF ~StartsWith(name, "com.victronenergy.")
  THEN [st |-> ScanReturn(Tables), ids |-> service_ids]
  ELSE IF newowner # ""
  THEN LET sc == ScanService(Tables, name, TRUE, di, listing)
       IN [st |-> sc,
           ids |-> IF sc.raised # NoStr THEN service_ids ELSE FSet(service_ids, newowner, name)]
  ELSE IF oldowner # ""
  THEN LET td == Teardown(ScanReturn(Tables), name, topics)
           sv == IF DHas(td.services, name) THEN DDel(td.services, name) ELSE td.services
       IN IF td.raised # NoStr THEN [st |-> td, ids |-> service_ids]
          ELSE [st |-> [td EXCEPT !.services = sv],
                ids |-> IF oldowner \in DOMAIN service_ids THEN FDel(service_ids, oldowner)
                        ELSE service_ids]
  ELSE [st |-> ScanReturn(Tables), ids |-> service_ids]

NoOutput == busOut' = <<>> /\ enqOut' = <<>> /\ pubOut' = <<>> /\ regOut' = 0

\* the signal is handled in the main loop, with the bus changed as it says
DbusNameOwnerChanged(name, oldowner, newowner, di, listing) ==
  \E h \in {NameOwnerChanged(name, oldowner, newowner, di, listing)} :
     /\ topics' = h.st.topics
     /\ values' = h.st.values
     /\ services' = h.st.services
     /\ queue' = h.st.queue.q
     /\ enqOut' = h.st.queue.log
     /\ service_ids' = h.ids
     /\ scanned' = IF newowner # "" /\ name \in VendorServices /\ ScannedInstance(di) >= 0
                   THEN [scanned EXCEPT ![name] = ScannedInstance(di)] ELSE scanned
     /\ owner' = IF name \in VendorServices THEN [owner EXCEPT ![name] = newowner] ELSE owner
     /\ conn' = IF newowner = "" \/ name \notin VendorServices THEN conn
                ELSE FSet(conn, newowner, name)
     /\ lastOp' = [op |-> "name_owner_changed", name |-> name, oldowner |-> oldowner,
                   newowner |-> newowner, raised |-> h.st.raised]
     /\ busOut' = <<>> /\ pubOut' = <<>> /\ regOut' = 0
     /\ awaited' = IF name = awaited.service THEN NoWrite ELSE awaited
     /\ UNCHANGED <<socket_watch, connected_to_cloud, since_run, idle_sources, phase, init_todo,
                    installed, retained>>

NextUnique == UniqueName(Cardinality(DOMAIN conn) + 1)
CanAppear == Cardinality(DOMAIN conn) < MaxOwners

ServiceAppears ==
  /\ phase = "run" /\ CanAppear
  /\ \E name \in {n \in installed : owner[n] = ""} :
       \E replies \in ScanReplies(name) :
         DbusNameOwnerChanged(name, "", NextUnique, replies[1], replies[2])

ServiceDisappears ==
  /\ phase = "run"
  /\ \E name \in {n \in VendorServices : owner[n] # ""} :
       DbusNameOwnerChanged(name, owner[name], "", Val(PyNone), Unlisted)

ServiceChangesOwner ==
  /\ phase = "run" /\ CanAppear
  /\ \E name \in {n \in VendorServices : owner[n] # ""} :
       \E replies \in ScanReplies(name) :
         DbusNameOwnerChanged(name, owner[name], NextUnique, replies[1], replies[2])

\* a name outside the vendor prefix gets or loses its owner; the bus of the model
\* keeps no record of these names
OtherNameOwnerChanged ==
  /\ phase = "run"
  /\ \E oldowner, newowner \in {"", OtherUnique} :
       /\ oldowner # newowner
       /\ DbusNameOwnerChanged(OtherService, oldowner, newowner, Val(PyNone), Unlisted)

(***************************************************************************)
(* DbusMqtt.__init__: the names on the bus at startup are visited one by   *)
(* one; a scan that raises ends the process.                               *)
(***************************************************************************)
RECURSIVE InitialOwners(_, _)
InitialOwners(names, n) ==
  IF names = {} THEN <<>>
  ELSE LET m == CHOOSE x \in names : \A y \in names \ {x} : StrLess(x, y)
       IN <<<<UniqueName(n), m>>>> \o InitialOwners(names \ {m}, n + 1)

Init ==
  \E inst \in Installations, alive \in SUBSET VendorServices :
    LET o == InitialOwners(alive, 1)
    IN /\ alive \subseteq inst
       /\ Cardinality(alive) <= MaxOwners
       /\ installed = inst
       /\ owner = [b \in VendorServices |-> IF b \in alive THEN DGet([i \in DOMAIN o |-> <<o[i][2], o[i][1]>>], b) ELSE ""]
       /\ conn = [u \in DKeys(o) |-> DGet(o, u)]
       /\ scanned = [b \in VendorServices |-> -1]
       /\ retained = {}
       /\ awaited = NoWrite
       /\ init_todo = alive
       /\ phase = "init"
       /\ topics = <<>>
       /\ values = EmptyDict
       /\ services = <<>>
       /\ service_ids = EmptyDict
       /\ queue = <<>>
       /\ socket_watch = "None"
       /\ connected_to_cloud = FALSE
       /\ since_run = 1
       /\ idle_sources = 0
       /\ lastOp = [op |-> "init"]
       /\ busOut = <<>>
       /\ enqOut = <<>>
       /\ pubOut = <<>>
       /\ regOut = 0

InitScan ==
  /\ phase = "init"
  /\ \E service \in init_todo :
    \E replies \in ScanReplies(service) :
      \E sc \in {ScanService(Tables, service, FALSE, replies[1], replies[2])} :
         /\ init_todo' = init_todo \ {service}
         /\ IF StartsWith(service, "com.victronenergy.")
            THEN /\ service_ids' = FSet(service_ids, owner[service], service)
                 /\ topics' = sc.topics
                 /\ values' = sc.values
                 /\ services' = sc.services
                 /\ queue' = sc.queue.q
                 /\ enqOut' = sc.queue.log
                 /\ phase' = IF sc.raised # NoStr THEN "dead" ELSE phase
                 /\ scanned' = IF ScannedInstance(replies[1]) >= 0
                               THEN [scanned EXCEPT ![service] = ScannedInstance(replies[1])]
                               ELSE scanned
            ELSE /\ enqOut' = <<>>
                 /\ UNCHANGED <<service_ids, topics, values, services, queue, phase, scanned>>
         /\ lastOp' = [op |-> "init_scan", name |-> service]
         /\ busOut' = <<>> /\ pubOut' = <<>> /\ regOut' = 0
         /\ UNCHANGED <<socket_watch, connected_to_cloud, since_run, idle_sources, installed,
                        owner, conn, retained, awaited>>

\* MqttGObjectBridge.__init__ ends the construction; the main loop starts
InitDone ==
  /\ phase = "init" /\ init_todo = {}
  /\ phase' = "run"
  /\ lastOp' = [op |-> "init_done"]
  /\ NoOutput
  /\ UNCHANGED <<topics, values, services, service_ids, queue, socket_watch,
                 connected_to_cloud, since_run, idle_sources, init_todo, env, awaited>>

(***************************************************************************)
(* DbusMqtt._on_dbus_value_changed.  changes is [has |-> TRUE, v |-> the   *)
(* unwrapped "Value"] or [has |-> FALSE] for a dict without "Value".       *)
(***************************************************************************)
RECURSIVE FirstRecordOf(_, _)
\* the key of the first item of self._services whose value is service, NoStr for none
FirstRecordOf(sv, service) ==
  IF sv = <<>> THEN NoStr
  ELSE IF Head(sv)[2] = service THEN Head(sv)[1]
  ELSE FirstRecordOf(Tail(sv), service)

ValueChanged(changes, path, service_id) ==
  LET unchanged == [topics |-> topics, values |-> values, queue |-> Queue0, raised |-> NoStr]
      service == IF service_id \in DOMAIN service_ids THEN service_ids[service_id] ELSE NoStr
      uid == service \o path
      service_short_name == FirstRecordOf(services, service)
      a == AddItem(topics, values, service, PyStr(Split(service_short_name, "/", -1)[2]),
                   path, PyNone)
      tv == IF DHas(topics, uid) THEN [topics |-> topics, values |-> values]
            ELSE [topics |-> a.topics, values |-> a.values]
      topic == DGet(tv.topics, uid)
  IN IF service = NoStr THEN unchanged
     ELSE IF ~DHas(topics, uid) /\ service_short_name = NoStr THEN unchanged
     ELSE IF ~DHas(tv.topics, uid) THEN [unchanged EXCEPT !.raised = "KeyError"]
     ELSE IF ~changes.has
          THEN [topics |-> tv.topics, values |-> tv.values, queue |-> Queue0, raised |-> NoStr]
     ELSE [topics |-> tv.topics,
           values |-> FSet(tv.values, topic, changes.v),
           queue |-> Publish(Queue0, topic, changes.v),
           raised |-> NoStr]

ChangeDicts(path) == {[has |-> TRUE, v |-> v] : v \in ValuesOf(path)} \cup {[has |-> FALSE]}

RECURSIVE SeqToSet(_)
SeqToSet(q) == IF q = <<>> THEN {} ELSE {Head(q)} \cup SeqToSet(Tail(q))

\* the signal that service_id sends for path is the one the SetValue call w brings
\* about: it comes from the owner of the service, for the path and with the value set
Echo(w, service_id, path, changes) ==
  /\ w.service # NoStr
  /\ owner[w.service] = service_id
  /\ w.path = path
  /\ changes.has /\ changes.v = w.value

\* the handler of the signal by which the connection service_id tells the change
\* changes of path
DbusValueChanged(service_id, path, changes) ==
      \E h \in {ValueChanged(changes, path, service_id)} :
         /\ topics' = h.topics
         /\ values' = h.values
         /\ queue' = h.queue.q
         /\ enqOut' = h.queue.log
         /\ lastOp' = [op |-> "value_changed", service_id |-> service_id, path |-> path,
                       echo |-> Echo(awaited, service_id, path, changes),
                       raised |-> h.raised]
         /\ busOut' = <<>> /\ pubOut' = <<>> /\ regOut' = 0
         /\ awaited' = IF awaited.service # NoStr /\ owner[awaited.service] = service_id
                           /\ awaited.path = path
                       THEN NoWrite ELSE awaited
         /\ UNCHANGED <<services, service_ids, socket_watch, connected_to_cloud, since_run,
                        idle_sources, phase, init_todo, env>>

\* a connection signals a change of one of the paths of the service it was started for
OnDbusValueChanged ==
  /\ phase = "run"
  /\ \E service_id \in DOMAIN conn \cup {OtherUnique} :
    \E path \in SeqToSet(PathsOf(IF service_id = OtherUnique THEN OtherService
                                   ELSE conn[service_id])) :
     \E changes \in ChangeDicts(path) :
       DbusValueChanged(service_id, path, changes)

\* the battery monitor signals a new current or a new time to go
OnBatteryChanged ==
  /\ phase = "run"
  /\ \E service_id \in {u \in DOMAIN conn : conn[u] = Battery} :
    \E path \in {"/Dc/0/Current", "/TimeToGo"} :
     \E changes \in {c \in ChangeDicts(path) : c.has} :
       DbusValueChanged(service_id, path, changes)

(***************************************************************************)
(* The broker session.  MqttGObjectBridge sets self._socket_watch when the *)
(* socket to the broker is open and clears it in _on_disconnect; the       *)
(* broker's CONNACK, read through that watch, calls _on_connect.           *)
(***************************************************************************)
SocketOpens ==
  /\ phase = "run" /\ socket_watch = "None"
  /\ socket_watch' = "watch"
  /\ lastOp' = [op |-> "socket_opens"]
  /\ NoOutput
  /\ UNCHANGED <<topics, values, services, service_ids, queue, connected_to_cloud, since_run,
                 idle_sources, phase, init_todo, env, awaited>>

OnDisconnect ==
  /\ phase = "run" /\ socket_watch = "watch"
  /\ socket_watch' = "None"
  /\ lastOp' = [op |-> "on_disconnect"]
  /\ NoOutput
  /\ awaited' = NoWrite
  /\ UNCHANGED <<topics, values, services, service_ids, queue, connected_to_cloud, since_run,
                 idle_sources, phase, init_todo, env>>

OnConnect ==
  /\ phase = "run" /\ socket_watch = "watch"
  /\ \E Q \in {PublishAll(Queue0, values)} :
       queue' = Q.q /\ enqOut' = Q.log
  /\ lastOp' = [op |-> "on_connect"]
  /\ busOut' = <<>> /\ pubOut' = <<>> /\ regOut' = 0
  /\ UNCHANGED <<topics, values, services, service_ids, socket_watch, connected_to_cloud,
                 since_run, idle_sources, phase, init_todo, env, awaited>>

(***************************************************************************)
(* DbusMqtt._service_queue and _timer_service_queue.                       *)
(***************************************************************************)
\* the publish calls of one run, the queue it leaves and the value it returns
ServiceQueue(q, items) ==
  LET n == IF Len(q) < items THEN Len(q) ELSE items
  IN [pubs |-> [i \in 1..n |-> [topic |-> q[i][1], payload |-> q[i][2], retain |-> TRUE]],
      queue |-> SubSeq(q, n + 1, Len(q)),
      r |-> Len(q) >= items]

\* what the broker retains after the publishes pubs, which all ask for retain: an empty
\* payload clears the topic, any other payload stays
Retain(kept, pubs) ==
  LET last(t) == CHOOSE i \in 1..Len(pubs) :
                   pubs[i].topic = t /\ \A j \in (i + 1)..Len(pubs) : pubs[j].topic # t
      named == {pubs[i].topic : i \in 1..Len(pubs)}
  IN (kept \ named) \cup {t \in named : pubs[last(t)].payload # Tombstone}

\* the publishes that reach the broker: all while the socket is open, none otherwise
Delivered(pubs) == IF socket_watch = "watch" THEN pubs ELSE <<>>

\* The 1000 ms timer fires.  since_run = 0 says that the queue ran after the previous
\* firing, so that time() - self._last_queue_run is at most 1 s; otherwise it is more
\* than 1 s, and more than 1.5 s or not.
TimerRuns ==
  \E d \in {ServiceQueue(queue, DrainItems)} :
    /\ phase = "run"
    /\ Len(queue) > 0 /\ since_run > 0
    /\ d.r => idle_sources < MaxIdle
    /\ queue' = d.queue
    /\ pubOut' = d.pubs
    /\ since_run' = 0
    /\ idle_sources' = IF d.r THEN idle_sources + 1 ELSE idle_sources
    /\ lastOp' = [op |-> "timer", ran |-> TRUE]
    /\ busOut' = <<>> /\ enqOut' = <<>> /\ regOut' = 0
    /\ retained' = Retain(retained, Delivered(d.pubs))
    /\ UNCHANGED <<topics, values, services, service_ids, socket_watch, connected_to_cloud,
                   phase, init_todo, installed, owner, conn, scanned, awaited>>

TimerSkips ==
  /\ phase = "run"
  /\ since_run' = 1
  /\ lastOp' = [op |-> "timer", ran |-> FALSE]
  /\ NoOutput
  /\ UNCHANGED <<topics, values, services, service_ids, queue, socket_watch, connected_to_cloud,
                 idle_sources, phase, init_todo, env, awaited>>

TimerServiceQueue == TimerRuns \/ TimerSkips

\* an idle source calls _service_queue; it stays while the call returns True
IdleServiceQueue ==
  \E d \in {ServiceQueue(queue, DrainItems)} :
     /\ phase = "run" /\ idle_sources > 0
     /\ queue' = d.queue
     /\ pubOut' = d.pubs
     /\ since_run' = 0
     /\ idle_sources' = IF d.r THEN idle_sources ELSE idle_sources - 1
     /\ lastOp' = [op |-> "idle"]
     /\ busOut' = <<>> /\ enqOut' = <<>> /\ regOut' = 0
     /\ retained' = Retain(retained, Delivered(d.pubs))
     /\ UNCHANGED <<topics, values, services, service_ids, socket_watch, connected_to_cloud,
                    phase, init_todo, installed, owner, conn, scanned, awaited>>

(***************************************************************************)
(* DbusMqtt._on_message with _handle_write, _handle_read and               *)
(* _get_uid_by_topic.  reply is the answer of the bus to the one call a    *)
(* request makes.  The result holds the tables, the bus calls made, the    *)
(* idle sources added and the register() calls made.                       *)
(***************************************************************************)
GetUidByTopic(topic) ==
  LET parts == Split(topic, "/", 4)
      device_instance == StrToInt(parts[4])
      key == parts[3] \o "/" \o IntToStr(device_instance)
  IN IF Len(parts) # 5 \/ device_instance < 0 THEN [raised |-> "ValueError"]
     ELSE [raised |-> NoStr,
           service |-> IF DHas(services, key) THEN DGet(services, key) ELSE NoStr,
           device_instance |-> device_instance,
           path |-> parts[5]]

\* the handler returns with nothing done; raised is the exception that _on_message
\* caught and logged, NoStr for none
Done(raised) ==
  [topics |-> topics, values |-> values, queue |-> Queue0, cloud |-> connected_to_cloud,
   bus |-> <<>>, idle |-> 0, reg |-> 0, raised |-> raised]

\* _handle_write resolving the service before it looks at the payload, and calling
\* SetValue with whatever the payload gives
HandleWriteAnyPayload(topic, payload, reply) ==
    LET value == JsonLoadsValue(payload)
        u == GetUidByTopic(topic)
        call == [method |-> "SetValue", service |-> u.service, path |-> "/" \o u.path,
                 value |-> value, reply |-> reply]
    IN IF u.raised # NoStr THEN Done(u.raised)
       ELSE IF u.service = NoStr THEN Done("Unknown service")
       ELSE IF ~reply.ok THEN [Done(reply.e) EXCEPT !.bus = <<call>>]
       ELSE [Done(NoStr) EXCEPT !.bus = <<call>>, !.idle = 1]

HandleWrite(topic, payload, reply) ==
    LET value == JsonLoadsValue(payload)
        u == GetUidByTopic(topic)
        call == [method |-> "SetValue", service |-> u.service, path |-> "/" \o u.path,
                 value |-> value, reply |-> reply]
    IN IF value = JsonError THEN Done("JSONDecodeError")
       ELSE IF u.raised # NoStr THEN Done(u.raised)
       ELSE IF u.service = NoStr THEN Done("Unknown service")
       ELSE IF ~reply.ok THEN [Done(reply.e) EXCEPT !.bus = <<call>>]
       ELSE [Done(NoStr) EXCEPT !.bus = <<call>>, !.idle = 1]

HandleRead(topic, reply) ==
    LET u == GetUidByTopic(topic)
        call == [method |-> "GetValue", service |-> u.service, path |-> "/" \o u.path,
                 reply |-> reply]
        a == AddItem(topics, values, u.service, PyInt(u.device_instance), u.path, reply.v)
    IN IF u.raised # NoStr THEN Done(u.raised)
       ELSE IF u.service = NoStr THEN Done("Unknown service")
       ELSE IF ~reply.ok THEN [Done(reply.e) EXCEPT !.bus = <<call>>]
       ELSE IF a.r = topic
            THEN [Done(NoStr) EXCEPT !.topics = a.topics, !.values = a.values,
                                     !.queue = Publish(Queue0, topic, reply.v),
                                     !.bus = <<call>>, !.idle = 1]
       ELSE [Done(NoStr) EXCEPT !.topics = a.topics, !.values = a.values, !.bus = <<call>>]

\* _on_message calling the registrator whenever the broker reports the cloud connection
\* down
MessageRegisters(msg_topic, payload, reply) ==
  IF StartsWith(msg_topic, "$SYS/broker/connection/")
  THEN IF StrToInt(payload) = 1 THEN [Done(NoStr) EXCEPT !.cloud = TRUE]
       ELSE [Done(NoStr) EXCEPT !.cloud = FALSE, !.reg = 1]
  ELSE LET parts == Split(msg_topic, "/", 2)
           action == parts[1]
           system_id == parts[2]
           topic == "N/" \o system_id \o "/" \o parts[3]
       IN IF Len(parts) # 3 THEN Done("ValueError")
          ELSE IF system_id # SystemId THEN Done("Unknown system id")
          ELSE IF action = "W" THEN HandleWrite(topic, payload, reply)
          ELSE IF action = "R" THEN HandleRead(topic, reply)
          ELSE Done(NoStr)

\* _on_message without the comparison of the portal id
MessageAnyId(msg_topic, payload, reply) ==
  IF StartsWith(msg_topic, "$SYS/broker/connection/")
  THEN IF StrToInt(payload) = 1 THEN [Done(NoStr) EXCEPT !.cloud = TRUE]
       ELSE IF connected_to_cloud THEN [Done(NoStr) EXCEPT !.cloud = FALSE, !.reg = 1]
       ELSE Done(NoStr)
  ELSE LET parts == Split(msg_topic, "/", 2)
           action == parts[1]
           topic == "N/" \o SystemId \o "/" \o parts[3]
       IN IF Len(parts) # 3 THEN Done("ValueError")
          ELSE IF action = "W" THEN HandleWrite(topic, payload, reply)
          ELSE IF action = "R" THEN HandleRead(topic, reply)
          ELSE Done(NoStr)

Message(msg_topic, payload, reply) ==
  IF StartsWith(msg_topic, "$SYS/broker/connection/")
  THEN IF StrToInt(payload) = 1 THEN [Done(NoStr) EXCEPT !.cloud = TRUE]
       ELSE IF connected_to_cloud THEN [Done(NoStr) EXCEPT !.cloud = FALSE, !.reg = 1]
       ELSE Done(NoStr)
  ELSE LET parts == Split(msg_topic, "/", 2)
           action == parts[1]
           system_id == parts[2]
           topic == "N/" \o system_id \o "/" \o parts[3]
       IN IF Len(parts) # 3 THEN Done("ValueError")
          ELSE IF system_id # SystemId THEN Done("Unknown system id")
          ELSE IF action = "W" THEN HandleWrite(topic, payload, reply)
          ELSE IF action = "R" THEN HandleRead(topic, reply)
          ELSE Done(NoStr)

\* the messages the broker may deliver
CloudTopic == "$SYS/broker/connection/" \o SystemId \o "/state"
RequestTopics ==
  {"R/" \o SystemId \o "/" \o p : p \in {"vebus/0/Mode", "vebus/1/Mode",
                                         "vebus/0/Interfaces/Mk2/Tunnel", "vebus/x/Mode"}}
  \cup {"W/" \o SystemId \o "/" \o p : p \in {"vebus/0/Mode", "vebus/1/Mode", "vebus/0"}}
  \cup {"R/" \o OtherId \o "/vebus/0/Mode", "W/" \o OtherId \o "/vebus/0/Mode",
        "X/" \o SystemId \o "/vebus/0/Mode", "R/" \o SystemId}
WritePayloads == {JsonDumps(PyInt(n)) : n \in 1..MaxValue} \cup {"1"}
PayloadsOf(msg_topic) ==
  IF msg_topic = CloudTopic THEN {"0", "1"}
  ELSE IF StartsWith(msg_topic, "W/") THEN WritePayloads
  ELSE {""}

\* the answers of the bus to the call of a request, if it makes one: a service that
\* left the bus is unknown, SetValue returns an int
CallReplies(msg_topic, payload) ==
  LET calls == Message(msg_topic, payload, Err(ServiceUnknown)).bus
  IN IF calls = <<>> THEN {Err(ServiceUnknown)}
     ELSE IF owner[calls[1].service] = "" THEN {Err(ServiceUnknown)}
     ELSE IF calls[1].method = "SetValue" THEN {Val(PyInt(0)), Err(ServiceUnknown)}
     ELSE {Val(v) : v \in ValuesOf(calls[1].path)} \cup {Err(ServiceUnknown), Err(UnknownObject)}

\* the first two segments of a topic: the action and the portal id of a request
TopicHead(msg_topic) ==
  LET parts == Split(msg_topic, "/", 2)
  IN IF Len(parts) < 2 THEN msg_topic ELSE parts[1] \o "/" \o parts[2]

\* the topic on which the value of the item that the request msg_topic names is published
NTopic(msg_topic) == "N/" \o SubSeq(msg_topic, 3, Len(msg_topic))

\* _on_message is called with msg_topic and payload, and the bus answers reply
OnMessage(msg_topic, payload, reply) ==
  \E h \in {Message(msg_topic, payload, reply)} :
    /\ h.idle > 0 => idle_sources < MaxIdle
    /\ topics' = h.topics
    /\ values' = h.values
    /\ queue' = h.queue.q
    /\ enqOut' = h.queue.log
    /\ connected_to_cloud' = h.cloud
    /\ idle_sources' = idle_sources + h.idle
    /\ busOut' = h.bus
    /\ regOut' = h.reg
    /\ pubOut' = <<>>
    /\ lastOp' = [op |-> "on_message", topic |-> TopicHead(msg_topic),
                  payload |-> IF msg_topic = CloudTopic THEN payload ELSE NoStr,
                  raised |-> h.raised]
    /\ awaited' = IF h.bus # <<>> /\ h.bus[1].method = "SetValue" /\ reply.ok
                  THEN [service |-> h.bus[1].service, path |-> h.bus[1].path,
                        value |-> h.bus[1].value, topic |-> NTopic(msg_topic)]
                  ELSE awaited
    /\ UNCHANGED <<services, service_ids, socket_watch, since_run, phase, init_todo, env>>

\* a request arrives
OnRequest ==
  /\ phase = "run"
  /\ \E msg_topic \in RequestTopics :
       \E payload \in PayloadsOf(msg_topic) :
         \E reply \in CallReplies(msg_topic, payload) :
           OnMessage(msg_topic, payload, reply)

\* a request to write 1 to the mode of a service arrives
OnWriteMode ==
  /\ phase = "run"
  /\ \E msg_topic \in {t \in RequestTopics : StartsWith(t, "W/" \o SystemId) /\ EndsWith(t, "/Mode")} :
       \E reply \in CallReplies(msg_topic, JsonDumps(PyInt(1))) :
         OnMessage(msg_topic, JsonDumps(PyInt(1)), reply)

\* the broker reports the state of its connection to the cloud
OnCloudState ==
  /\ phase = "run"
  /\ \E payload \in PayloadsOf(CloudTopic) :
       OnMessage(CloudTopic, payload, Err(ServiceUnknown))

(***************************************************************************)
(* The specification.                                                      *)
(***************************************************************************)
Next ==
  \/ InitScan
  \/ InitDone
  \/ ServiceAppears
  \/ ServiceDisappears
  \/ ServiceChangesOwner
  \/ OtherNameOwnerChanged
  \/ OnDbusValueChanged
  \/ SocketOpens
  \/ OnConnect
  \/ OnDisconnect
  \/ OnRequest
  \/ OnCloudState
  \/ TimerServiceQueue
  \/ IdleServiceQueue

Spec == Init /\ [][Next]_vars

\* The reachable states of Spec are too many to enumerate; each of the following
\* specifications takes a part of the environment.

\* the bus signals, the broker session and the timer
NextBus ==
  \/ InitScan
  \/ InitDone
  \/ ServiceAppears
  \/ ServiceDisappears
  \/ ServiceChangesOwner
  \/ OtherNameOwnerChanged
  \/ OnDbusValueChanged
  \/ SocketOpens
  \/ OnConnect
  \/ OnDisconnect
  \/ TimerServiceQueue

\* a system with one vendor service
InitOne == Init /\ installed = {Vebus1}

\* a system with the system service and one other vendor service
InitSystem == Init /\ installed = {SysService, Vebus1}

SpecSystem == InitSystem /\ [][NextBus]_vars

\* a system with two vendor services of one type, which are on the bus at startup or
\* never: the services leave, signal changes, and the broker session comes and goes
InitPair == Init /\ installed = {Vebus1, Vebus2}

NextPair ==
  \/ InitScan
  \/ InitDone
  \/ ServiceDisappears
  \/ OnDbusValueChanged
  \/ SocketOpens
  \/ OnConnect
  \/ OnDisconnect
  \/ TimerServiceQueue

SpecPair == InitPair /\ [][NextPair]_vars

\* a system with one vendor service, which may leave the bus: the requests, the change
\* signals, the broker session, the timer and the idle callbacks
NextRequests ==
  \/ InitScan
  \/ InitDone
  \/ ServiceDisappears
  \/ OnDbusValueChanged
  \/ SocketOpens
  \/ OnConnect
  \/ OnDisconnect
  \/ OnRequest
  \/ TimerServiceQueue
  \/ IdleServiceQueue

SpecRequests == InitOne /\ [][NextRequests]_vars

\* a system with one vendor service, which may leave the bus and come back: the writes
\* of its mode, the change signals, and a broker session that stays once it is there
NextRoundTrip ==
  \/ InitScan
  \/ InitDone
  \/ ServiceAppears
  \/ ServiceDisappears
  \/ OnDbusValueChanged
  \/ SocketOpens
  \/ OnConnect
  \/ OnWriteMode
  \/ TimerServiceQueue
  \/ IdleServiceQueue

SpecRoundTrip == InitOne /\ [][NextRoundTrip]_vars

\* a system with one vendor service: the connection state messages, the broker session,
\* the change signals and the timer
NextCloud ==
  \/ InitScan
  \/ InitDone
  \/ OnDbusValueChanged
  \/ SocketOpens
  \/ OnConnect
  \/ OnDisconnect
  \/ OnCloudState
  \/ TimerServiceQueue

SpecCloud == InitOne /\ [][NextCloud]_vars

\* A battery monitor with six items, mirrored at start-up: the queue holds more items
\* than one run of _service_queue publishes, or as many when the scan was abandoned
\* before the last item.
InitBattery == Init /\ installed = {Battery}

NextDrain ==
  \/ InitScan
  \/ InitDone
  \/ SocketOpens
  \/ OnConnect
  \/ TimerServiceQueue
  \/ IdleServiceQueue

SpecDrain == InitBattery /\ [][NextDrain]_vars

\* One vebus service that comes and goes while the session with the broker is made,
\* lost and made again.
NextSession ==
  \/ InitScan
  \/ InitDone
  \/ ServiceAppears
  \/ ServiceDisappears
  \/ OnDbusValueChanged
  \/ SocketOpens
  \/ OnConnect
  \/ OnDisconnect
  \/ TimerServiceQueue

SpecSession == InitOne /\ [][NextSession]_vars

\* The main loop calls the timer callback every 1000 ms and the idle sources whenever
\* it has nothing else to do: the timer fires again and again, a drain that is due is
\* run, and an idle source that is installed is called.
Fairness ==
  /\ WF_vars(TimerSkips)
  /\ WF_vars(TimerRuns)
  /\ WF_vars(IdleServiceQueue)

NextQueue ==
  \/ InitScan
  \/ InitDone
  \/ SocketOpens
  \/ OnConnect
  \/ OnBatteryChanged
  \/ TimerServiceQueue
  \/ IdleServiceQueue

SpecQueue == InitBattery /\ [][NextQueue]_vars /\ Fairness

(***************************************************************************)
(* The properties.                                                         *)
(***************************************************************************)
\* the topics the mirror tp holds under the service name
TopicsOf(tp, name) ==
  {DGet(tp, uid) : uid \in {u \in DKeys(tp) : StartsWith(u, name \o "/")}}

\* the step is the handler of the signal that the vendor service lastOp'.name lost
\* its owner
Departure ==
  /\ lastOp'.op = "name_owner_changed"
  /\ lastOp'.name \in VendorServices
  /\ lastOp'.newowner = ""

\* C1: when the departure of a service has been handled, no unique id beginning with
\* its name and "/" remains in the topic table, and every topic that was mirrored
\* under it and that the broker retains, the system serial apart, has been given a
\* tombstone as its pending payload, whatever the state of the broker session.
C1_DepartureLeavesTombstones ==
  [][Departure =>
       /\ \A uid \in DKeys(topics') : ~StartsWith(uid, lastOp'.name \o "/")
       /\ \A t \in TopicsOf(topics, lastOp'.name) \cap retained :
            ~EndsWith(t, "/system/0/Serial") =>
               /\ <<t, Tombstone>> \in SeqToSet(enqOut')
               /\ DHas(queue', t) /\ DGet(queue', t) = Tombstone]_vars

\* C2: the payloads published on a topic follow the values written to its last-seen
\* slot: a handler that gives a topic a pending payload other than the tombstone gives
\* it the JSON object of the value the slot of the topic then holds, so that what is
\* published last is the value written last.
C2_PublishedFollowsWritten ==
  [][\A i \in 1..Len(enqOut') :
       enqOut'[i][2] # Tombstone =>
         /\ enqOut'[i][1] \in DOMAIN values'
         /\ DGet(queue', enqOut'[i][1]) = JsonDumps(values'[enqOut'[i][1]])]_vars

NoDup(q) == \A i, j \in 1..Len(q) : q[i][1] = q[j][1] => i = j

\* the topics of the assignments log, and the payload of the last one made to topic t
Enqueued(log) == {log[i][1] : i \in 1..Len(log)}
LastOf(log, t) ==
  log[CHOOSE i \in 1..Len(log) :
        log[i][1] = t /\ \A j \in (i + 1)..Len(log) : log[j][1] # t][2]

\* C3: the queue holds at most one pending payload per topic; an enqueue leaves the
\* topic pending with the payload of that enqueue, whatever was pending for it, and
\* leaves the other topics as they were; a drain publishes a topic at most once, with
\* the payload that was pending for it, so that successive enqueues for a topic with
\* no drain between them give one publish with the payload of the last.
C3_Coalescing ==
  [][/\ NoDup(queue')
     /\ \A t \in Enqueued(enqOut') :
          DHas(queue', t) /\ DGet(queue', t) = LastOf(enqOut', t)
     /\ \A t \in DKeys(queue') \ Enqueued(enqOut') :
          DHas(queue, t) /\ DGet(queue', t) = DGet(queue, t)
     /\ \A i \in 1..Len(pubOut') :
          /\ DHas(queue, pubOut'[i].topic)
          /\ pubOut'[i].payload = DGet(queue, pubOut'[i].topic)
          /\ ~DHas(queue', pubOut'[i].topic)
          /\ \A j \in 1..Len(pubOut') : pubOut'[j].topic = pubOut'[i].topic => i = j]_vars

SerialTopic == "N/" \o SystemId \o "/system/0/Serial"

\* a change signal gave the system serial, pending before another topic, a new payload
C3_Witness ==
  /\ lastOp.op = "value_changed"
  /\ Len(queue) = 2
  /\ queue[1][1] = SerialTopic
  /\ enqOut = <<queue[1]>>

\* the service and the path of a unique id
ServiceOf(uid) == SubSeq(uid, 1, Find(uid, "/", 1) - 1)
PathOf(uid) == SubSeq(uid, Find(uid, "/", 1), Len(uid))

\* C4: every mirror entry has the topic N/{portal id}/{service type}/{instance}{path},
\* where the path begins with "/", the service type is the third segment of the name
\* of the service and the instance is the device instance the last scan of the service
\* found.
C4_TopicOfEntry ==
  \A uid \in DKeys(topics) :
    /\ ServiceOf(uid) \in VendorServices
    /\ scanned[ServiceOf(uid)] >= 0
    /\ DGet(topics, uid) =
         "N/" \o SystemId \o "/" \o Split(ServiceOf(uid), ".", -1)[3] \o "/"
              \o IntToStr(scanned[ServiceOf(uid)]) \o PathOf(uid)

\* the topic names a blocked pair
BlockedTopic(t) ==
  LET parts == Split(t, "/", 4)
  IN Len(parts) = 5 /\ <<parts[3], "/" \o parts[5]>> \in blocked_items

\* C5: no unique id and no value slot exists for a blocked pair of service type and
\* path, and no payload is pending, was enqueued or was published for one.
C5_NoBlockedEntry ==
  /\ \A uid \in DKeys(topics) :
       /\ <<Split(ServiceOf(uid), ".", -1)[3], PathOf(uid)>> \notin blocked_items
       /\ ~BlockedTopic(DGet(topics, uid))
  /\ \A t \in DOMAIN values : ~BlockedTopic(t)
  /\ \A t \in DKeys(queue) \cup Enqueued(enqOut) : ~BlockedTopic(t)
  /\ \A i \in 1..Len(pubOut) : ~BlockedTopic(pubOut[i].topic)

\* a read request for the blocked path of the service got its value from the bus
C5_Witness ==
  /\ lastOp.op = "on_message"
  /\ lastOp.topic = "R/" \o SystemId
  /\ busOut # <<>>
  /\ busOut[1].method = "GetValue"
  /\ <<get_service_type(busOut[1].service), busOut[1].path>> \in blocked_items
  /\ busOut[1].reply.ok

\* C6: no tombstone is pending, was enqueued or was published for a topic that ends in
\* /system/0/Serial.
C6_SerialNeverTombstoned ==
  /\ \A i \in 1..Len(queue) :
       EndsWith(queue[i][1], "/system/0/Serial") => queue[i][2] # Tombstone
  /\ \A i \in 1..Len(enqOut) :
       EndsWith(enqOut[i][1], "/system/0/Serial") => enqOut[i][2] # Tombstone
  /\ \A i \in 1..Len(pubOut) :
       EndsWith(pubOut[i].topic, "/system/0/Serial") => pubOut[i].payload # Tombstone

\* the system service, which came on the bus once and whose serial the broker retains,
\* left while the socket was open
C6_Witness ==
  /\ lastOp.op = "name_owner_changed"
  /\ lastOp.name = SysService
  /\ lastOp.newowner = ""
  /\ socket_watch = "watch"
  /\ SerialTopic \in retained
  /\ Cardinality({u \in DOMAIN conn : conn[u] = SysService}) = 1
  /\ ~DHas(topics, SysService \o "/Serial")

\* the step handles an R or W request that names another portal id
ForeignRequest ==
  /\ lastOp'.op = "on_message"
  /\ lastOp'.topic \in {"R/" \o OtherId, "W/" \o OtherId}

\* C7: an R or W request whose portal id is not the local one brings no GetValue and no
\* SetValue call and leaves the registry, the mirror and the queue as they were.
C7_ForeignRequestIgnored ==
  [][ForeignRequest =>
       /\ busOut' = <<>>
       /\ UNCHANGED <<services, service_ids, topics, values, queue>>]_vars

\* a request for another portal arrived while the service it names was registered
C7_Witness ==
  /\ lastOp.op = "on_message"
  /\ lastOp.topic = "W/" \o OtherId
  /\ DHas(services, "vebus/0")
  /\ owner[Vebus1] # ""

\* C8: with the socket open, when the change signal arrives by which a service whose
\* owner is registered answers an accepted write of V, for a pair that is not blocked,
\* the payload {"value": V} is pending on N/{id}/{type}/{n}/{p}, the topic of the write
\* request, from where the drain publishes it.
C8_RoundTrip ==
  [][(/\ lastOp'.op = "value_changed"
      /\ lastOp'.echo
      /\ lastOp'.service_id \in DOMAIN service_ids
      /\ socket_watch = "watch"
      /\ <<get_service_type(awaited.service), awaited.path>> \notin blocked_items)
     => /\ DHas(queue', awaited.topic)
        /\ DGet(queue', awaited.topic) = JsonDumps(awaited.value)]_vars

\* the step handles a message on the topic of the state of the cloud connection
CloudState ==
  /\ lastOp'.op = "on_message"
  /\ lastOp'.topic = "$SYS/broker"

\* C9: the registrator is called once when the payload 0 arrives while the bridge is
\* connected to the cloud, which it is from a payload 1 to the next 0, and at no other
\* message and in no other handler.
C9_RegistratorOnLoss ==
  [][/\ CloudState =>
          /\ connected_to_cloud' = (lastOp'.payload = "1")
          /\ regOut' = IF lastOp'.payload = "0" /\ connected_to_cloud THEN 1 ELSE 0
     /\ ~CloudState => regOut' = 0 /\ connected_to_cloud' = connected_to_cloud]_vars

\* the payload 0 arrived while the bridge was connected to the cloud
C9_Witness ==
  /\ lastOp.op = "on_message"
  /\ lastOp.topic = "$SYS/broker"
  /\ lastOp.payload = "0"
  /\ regOut = 1
  /\ ~connected_to_cloud

\* C10: when the session with the broker is reported, every topic of the mirror is
\* pending with the last value seen for it.
C10_ConnectPublishesAll ==
  lastOp.op = "on_connect" =>
    \A uid \in DKeys(topics) :
      /\ DGet(topics, uid) \in DOMAIN values
      /\ DHas(queue, DGet(topics, uid))
      /\ DGet(queue, DGet(topics, uid)) = JsonDumps(values[DGet(topics, uid)])

\* the service has a record in the registry sv
Registered(sv, name) == \E i \in 1..Len(sv) : sv[i][2] = name

\* C11: when the departure of a service has been handled, its old owner resolves to no
\* service and no key of service type and device instance resolves to it.
C11_DepartureDropsRegistry ==
  [][Departure =>
       /\ lastOp'.oldowner \notin DOMAIN service_ids'
       /\ ~Registered(services', lastOp'.name)]_vars

\* a vendor service passes from one owner to another and the handler returns normally
OwnerSwap ==
  /\ lastOp'.op = "name_owner_changed"
  /\ lastOp'.name \in VendorServices
  /\ lastOp'.oldowner # ""
  /\ lastOp'.newowner # ""
  /\ lastOp'.raised = ""

\* C12: when a service has passed from one owner to another, the old owner resolves to
\* no service and the new owner resolves to the service, as after a departure followed
\* by an appearance.
C12_SwapIsDepartureThenAppearance ==
  [][OwnerSwap =>
       /\ lastOp'.oldowner \notin DOMAIN service_ids'
       /\ lastOp'.newowner \in DOMAIN service_ids'
       /\ service_ids'[lastOp'.newowner] = lastOp'.name]_vars

\* C13: a topic that a handler enqueues is behind every pending topic that the handler
\* did not enqueue, also when the topic was pending before, so that the drains publish
\* the topics in the order of their last enqueue.
C13_ReenqueueMovesToTail ==
  [][\A t \in Enqueued(enqOut') :
       \A u \in DKeys(queue') \ Enqueued(enqOut') :
         DIndex(queue', u) < DIndex(queue', t)]_vars

\* C14: no two unique ids of the topic table are bound to the same topic, also when two
\* live services have the same service type and the same device instance.
C14_TopicsInjective ==
  \A u1, u2 \in DKeys(topics) : DGet(topics, u1) = DGet(topics, u2) => u1 = u2

\* the read requests for the local portal that name a service type, a device instance
\* and a path
ReadTopics ==
  {t \in RequestTopics :
     /\ StartsWith(t, "R/" \o SystemId \o "/")
     /\ GetUidByTopic(NTopic(t)).raised = NoStr}

\* C15: with the socket open, a read request whose service type and device instance
\* resolve to a service makes the one call GetValue on "/" and the path; when the call
\* returns a value and the pair is not blocked, the topic of the request is bound in the
\* mirror, its last-seen slot holds the value read and the JSON object of that value is
\* pending on it, whether the entry is new or held another value.
C15_ReadRefreshesEntry ==
  [][\A msg_topic \in ReadTopics :
       \A v \in BusValues :
         (/\ socket_watch = "watch"
          /\ lastOp'.op = "on_message"
          /\ GetUidByTopic(NTopic(msg_topic)).service # NoStr
          /\ ~BlockedTopic(NTopic(msg_topic))
          /\ OnMessage(msg_topic, "", Val(v)))
         => /\ busOut' = <<[method |-> "GetValue",
                            service |-> GetUidByTopic(NTopic(msg_topic)).service,
                            path |-> "/" \o GetUidByTopic(NTopic(msg_topic)).path,
                            reply |-> Val(v)]>>
            /\ \E uid \in DKeys(topics') : DGet(topics', uid) = NTopic(msg_topic)
            /\ NTopic(msg_topic) \in DOMAIN values'
            /\ values'[NTopic(msg_topic)] = v
            /\ DHas(queue', NTopic(msg_topic))
            /\ DGet(queue', NTopic(msg_topic)) = JsonDumps(v)]_vars

\* the errors after which a scan is abandoned, and the answers by which a scan meets one
\* of them: at /DeviceInstance, at the bulk read of "/" or during the introspection
TransientErrors == {ServiceUnknown, Disconnected, NoReply}
TransientScan(di, listing) ==
  \/ ~di.ok /\ di.e \in TransientErrors
  \/ /\ ScannedInstance(di) >= 0
     /\ \/ listing.k = "error" /\ listing.e \in TransientErrors
        \/ listing.k = "introspect" /\ listing.e2 \in TransientErrors

\* C16: when the scan of a service that appears meets a transient error at one of its
\* bus calls, the handler returns without raising and the scan has written no service
\* record.
C16_TransientScanLeavesNoRecord ==
  [][\A name \in VendorServices :
       \A replies \in ScanReplies(name) :
         (/\ lastOp'.op = "name_owner_changed"
          /\ TransientScan(replies[1], replies[2])
          /\ DbusNameOwnerChanged(name, "", NextUnique, replies[1], replies[2]))
         => /\ lastOp'.raised = NoStr
            /\ services' = services]_vars

\* the step is a run of _service_queue, from the timer or from an idle source
Drain == lastOp'.op = "idle" \/ (lastOp'.op = "timer" /\ lastOp'.ran)

\* C17: the timer drains only a queue that is not empty and only when more than a
\* timer period has passed since the last drain of either kind; a drain publishes the
\* first items of the queue, at most DrainItems of them, in their order and with
\* retain, and removes these and no other; the timer drain adds an idle source only if
\* items remain in the queue.
C17_DrainPacing ==
  [][/\ (lastOp'.op = "timer" /\ lastOp'.ran) =>
          /\ Len(queue) > 0 /\ since_run > 0
          /\ idle_sources' > idle_sources => Len(queue') > 0
     /\ Drain =>
          /\ Len(pubOut') <= DrainItems
          /\ Len(pubOut') + Len(queue') = Len(queue)
          /\ \A i \in 1..Len(pubOut') :
               pubOut'[i] = [topic |-> queue[i][1], payload |-> queue[i][2], retain |-> TRUE]
          /\ queue' = SubSeq(queue, Len(pubOut') + 1, Len(queue))]_vars

\* the write requests, and those whose service type and device instance resolve to no
\* service
WriteTopics == {t \in RequestTopics : StartsWith(t, "W/")}
ResolvesToNone(msg_topic) ==
  \/ GetUidByTopic(NTopic(msg_topic)).raised # NoStr
  \/ GetUidByTopic(NTopic(msg_topic)).service = NoStr

\* C18: a write request leaves the topic table, the last-seen values and the queue as
\* they were; when its payload is no JSON object with a member 'value', or its service
\* type and device instance resolve to no service, it makes no bus call and adds no
\* idle source.
C18_WriteLeavesMirror ==
  [][\A msg_topic \in WriteTopics :
       \A payload \in WritePayloads :
         \A reply \in {Val(PyInt(0)), Err(ServiceUnknown)} :
           (/\ lastOp'.op = "on_message"
            /\ lastOp'.topic = TopicHead(msg_topic)
            /\ OnMessage(msg_topic, payload, reply)) =>
             /\ UNCHANGED <<topics, values, queue>>
             /\ (JsonLoadsValue(payload) = JsonError \/ ResolvesToNone(msg_topic)) =>
                  /\ busOut' = <<>>
                  /\ idle_sources' = idle_sources]_vars

\* a write request whose payload is the bare number 1 was dropped while its service was
\* registered and on the bus, with a payload pending in the queue
C18_Witness ==
  /\ lastOp.op = "on_message"
  /\ lastOp.topic = "W/" \o SystemId
  /\ lastOp.raised = "JSONDecodeError"
  /\ DHas(services, "vebus/0")
  /\ owner[Vebus1] # ""
  /\ queue # <<>>
  /\ busOut = <<>>

\* the topics of the battery monitor
BatteryTopics ==
  {"N/" \o SystemId \o "/battery/" \o IntToStr(n) \o PathsOf(Battery)[i] :
     n \in 0..MaxInst, i \in 1..Len(PathsOf(Battery))}

Published(t) == \E i \in 1..Len(pubOut) : pubOut[i].topic = t

\* C19: under the fairness of the main loop, a topic that is pending is eventually
\* published and taken from the queue, also while it and other topics are enqueued
\* again and again; and the queue is empty again and again unless enqueues go on.
C19_NoStarvation ==
  /\ \A t \in BatteryTopics : (DHas(queue, t) ~> (Published(t) /\ ~DHas(queue, t)))
  /\ []<>(queue = <<>> \/ enqOut # <<>>)

\* the time to go of the battery monitor, pending before more topics than one drain
\* publishes, has just been enqueued again
C19_Witness ==
  /\ Len(queue) > DrainItems
  /\ queue[1][1] = "N/" \o SystemId \o "/battery/0/TimeToGo"
  /\ queue[1][1] \in Enqueued(enqOut)

\* the step is the handler of a signal of the bus, or a scan at start-up
BusEvent == lastOp'.op \in {"value_changed", "name_owner_changed", "init_scan"}

\* C20: while the socket watch is absent, the handler of a bus signal and a scan enqueue
\* nothing and leave the queue as it is; the handler of a change signal still writes the
\* new value to the last-seen slot of a topic of the mirror, the scan of a service that
\* appears still writes the values listed to the slots of its items, and the handler of
\* a departure still removes the unique ids of the service.
C20_NoSessionNoEnqueue ==
  [][(socket_watch = "None" /\ BusEvent) =>
       /\ enqOut' = <<>>
       /\ queue' = queue
       /\ Departure => \A uid \in DKeys(topics') : ~StartsWith(uid, lastOp'.name \o "/")
       /\ \A service_id \in DOMAIN service_ids :
            \A path \in SeqToSet(PathsOf(service_ids[service_id])) :
              \A changes \in {c \in ChangeDicts(path) : c.has} :
                (/\ lastOp'.op = "value_changed"
                 /\ DHas(topics, service_ids[service_id] \o path)
                 /\ DbusValueChanged(service_id, path, changes))
                => LET topic == DGet(topics, service_ids[service_id] \o path)
                   IN topic \in DOMAIN values' /\ values'[topic] = changes.v
       /\ \A name \in installed :
            \A replies \in ScanReplies(name) :
              (/\ lastOp'.op = "name_owner_changed"
               /\ replies[2].k = "dict" /\ ScannedInstance(replies[1]) >= 0
               /\ DbusNameOwnerChanged(name, "", NextUnique, replies[1], replies[2]))
              => \A i \in 1..Len(PathsOf(name)) :
                   <<get_service_type(name), PathsOf(name)[i]>> \notin blocked_items =>
                     /\ DHas(topics', name \o PathsOf(name)[i])
                     /\ DGet(topics', name \o PathsOf(name)[i]) \in DOMAIN values'
                     /\ values'[DGet(topics', name \o PathsOf(name)[i])] = replies[2].vals[i]]_vars

\* with the socket watch absent and a payload pending, a change signal has written the
\* value 1 to the slot of the pending topic, which is pending with another payload
C20_Witness ==
  /\ socket_watch = "None"
  /\ lastOp.op = "value_changed"
  /\ lastOp.raised = NoStr
  /\ lastOp.service_id \in DOMAIN conn
  /\ \E uid \in DKeys(topics) :
       /\ StartsWith(uid, conn[lastOp.service_id] \o lastOp.path)
       /\ DGet(topics, uid) \in DOMAIN values
       /\ values[DGet(topics, uid)] = PyInt(1)
       /\ DHas(queue, DGet(topics, uid))
       /\ DGet(queue, DGet(topics, uid)) # JsonDumps(PyInt(1))

====
